---- MODULE Spec2Model ----
(***************************************************************************)
(* Model of migrate.py: the helper that reports which resources of an      *)
(* OpenStack project sit on the legacy (midonet) backend and that switches *)
(* the project between legacy and modern networking through the project    *)
(* tag 'legacy-networking'.                                                *)
(*                                                                         *)
(* One run of the script is one action: the tool is a single-threaded,     *)
(* one-shot process, so a run reads the cloud state, prints, and (switch   *)
(* only) writes the tag, with nothing interleaved.  Between runs the cloud *)
(* changes on its own (role grants, the backend of the external network    *)
(* catching up with the tag); those are the environment actions.           *)
(***************************************************************************)
EXTENDS Naturals, Sequences, FiniteSets

\* ------------------------------------------------------------ constants

NAME_MIDONET == "legacy"
NAME_OVN == "modern"
CACHE_TIMEOUT == "2 minutes"
TAG_LEGACY == "legacy-networking"

\* Python's None, for the optional attributes and the missing recommendation.
None == "None"

\* The provider_network_type values of the two backends.
NetTypes == {"midonet", "ovn"}

\* The networks of the cloud: two external floating networks and one network
\* of the project.
ExtNetIds == {"ext-1", "ext-2"}
ProjectNetIds == {"net-1"}
NetIds == ExtNetIds \cup ProjectNetIds

\* The identity of the caller (conn.current_user_id, conn.current_project_id)
\* and the id of the role get_role('TenantManager') returns.
current_user_id == "user-1"
current_project_id == "project-1"
project_name == "demo"
TenantManagerRoleId == "role-tm"

\* Role assignments that may exist in keystone: the caller's, and three that
\* differ from it in exactly one of user, project and role.
AssignmentUniverse ==
    { [user |-> "user-1", project |-> "project-1", role |-> "role-tm"],
      [user |-> "user-2", project |-> "project-1", role |-> "role-tm"],
      [user |-> "user-1", project |-> "project-2", role |-> "role-tm"],
      [user |-> "user-1", project |-> "project-1", role |-> "role-member"] }

\* Tags a project may carry.
TagUniverse == {TAG_LEGACY, "other-tag"}

\* device_owner values of ports.
OWNER_ROUTER_INTERFACE == "network:router_interface"
OWNER_ROUTER_GATEWAY == "network:router_gateway"

\* Bounds of the report model: how many resources (networks, routers,
\* floating IPs, servers) a project holds, and how many ports exist.
MaxResources == 2
MaxPorts == 2

RouterUniverse ==
    [id : {"router-1", "router-2"}, gateway : {None} \cup ExtNetIds]
FipUniverse ==
    [id : {"fip-1"}, floating_network_id : ExtNetIds, port_id : {None, "port-1"}]
ServerUniverse ==
    [id : {"server-1"}, interfaces : SUBSET {"net-1", "ext-2"}]
PortUniverse ==
    [device_id : {"router-1", "router-2"},
     device_owner : {OWNER_ROUTER_INTERFACE, OWNER_ROUTER_GATEWAY}]

UniqueIds(S) == \A a, b \in S : a.id = b.id => a = b

\* ------------------------------------------------------------- messages

MsgSanityNoPrivilege ==
    "You do not have sufficient privileges to migrate the project. You need the 'TenantManager' role on this project"
MsgRecentlySwitched ==
    "Project networking may have been recently switched. Please wait for 2 minutes and try again."
MsgSwitching == "Switching project networking"
MsgSwitchNoPrivilege ==
    "You do not have sufficient privileges to switch this project. You need the 'TenantManager' role on this project"
MsgAlreadyLegacy == "Project is already set to legacy networking"
MsgAlreadyModern == "Project is already set to modern networking"
MsgSetLegacy == "Project set to legacy networking."
MsgSetModern == "Project set to modern networking."
MsgWaitLegacy == "Please wait 2 minutes for changes to propagate to all service."
MsgWaitModern == "Please wait 2 minutes for changes to propagate to all services."
MsgProject == "Project: demo"
MsgNetworkingLegacy == "Networking: legacy"
MsgNetworkingModern == "Networking: modern"
MsgChecking == "Checking resources. This might take a while..."
MsgCongratulations ==
    "Congratulations! Your project is already using modern networking. No resources needs to be migrated."
MsgNeedsSwitch == "Project demo needs to switch to modern networking."
MsgAlreadyUsing == "Project demo is already using modern networking."
MsgMigrationList == "The following resources needs to be migrated:"
MsgTable == "<table>"

\* ---------------------------------------------------------------- state

VARIABLES
    tags,         \* the tag set of the current project (keystone)
    tm_role,      \* what get_role('TenantManager') yields for the caller:
                  \* "forbidden" (ForbiddenException), None, or the role id
    assignments,  \* the role assignments held by keystone
    netType,      \* provider_network_type of every network
    floating,     \* the external networks tagged nectar:floating, in the
                  \* order the networks query lists them
    networks,     \* the project's own non-external networks (ids)
    routers,      \* the routers visible to the caller
    ports,        \* the ports visible to the caller
    ips,          \* the floating IPs visible to the caller
    servers,      \* the compute servers visible to the caller
    cmd,          \* the last run: [op, arg], op "idle" when none
    queries,      \* the cloud calls the last run issued, in order
    out,          \* the lines the last run printed
    pt,           \* the rows the last run put in its PrettyTable
    calls,        \* history: the last two calls of switch()
    pending       \* history: the mode of the last tag change the first
                  \* floating network has not caught up with ("none" if so)

cloud == <<tags, tm_role, assignments, netType, floating, networks, routers,
           ports, ips, servers>>
resources == <<floating, networks, routers, ports, ips, servers>>
vars == <<tags, tm_role, assignments, netType, floating, networks, routers,
          ports, ips, servers, cmd, queries, out, pt, calls, pending>>

Idle == [op |-> "idle", all_resources |-> FALSE, networking |-> None]

\* ------------------------------------------- privilege and consistency

\* Variant of list_role_assignments that drops the user filter.
list_role_assignments_any_user(query) ==
    { a \in assignments : /\ a.project = query.project
                          /\ a.role = query.role }

\* conn.list_role_assignments(query): keystone returns the assignments that
\* match every filter of the query.
list_role_assignments(query) ==
    { a \in assignments : /\ a.user = query.user
                          /\ a.project = query.project
                          /\ a.role = query.role }

\* is_tenant_manager(): [ret, q] - the value returned and the calls issued.
is_tenant_manager ==
    IF tm_role = "forbidden"
    THEN [ret |-> FALSE, q |-> <<"get_role">>]
    ELSE IF tm_role = None
    THEN [ret |-> FALSE, q |-> <<"get_role">>]
    ELSE LET query == [user |-> current_user_id,
                       project |-> current_project_id,
                       role |-> tm_role]
             ra == list_role_assignments(query)
         IN  [ret |-> ra # {}, q |-> <<"get_role", "list_role_assignments">>]

\* Variant of is_legacy_project that looks for the mode name, not the tag.
is_legacy_project_wrong_tag == NAME_MIDONET \in tags

\* is_legacy_project(): reads the project (one identity.get_project call).
is_legacy_project == TAG_LEGACY \in tags

\* is_legacy_network(network_or_id), by the network's id.
is_legacy_network(network_id) == netType[network_id] = "midonet"

\* Variant of check_sanity that skips the tag/network comparison.
check_sanity_no_agreement ==
    LET tm == is_tenant_manager IN
    IF ~tm.ret
    THEN [ret |-> FALSE, q |-> tm.q, out |-> << <<MsgSanityNoPrivilege>> >>]
    ELSE [ret |-> TRUE,
          q |-> tm.q \o <<"network.networks", "identity.get_project">>,
          out |-> << >>]

\* Variant of check_sanity that takes the last floating network listed.
check_sanity_last_network ==
    LET tm == is_tenant_manager IN
    IF ~tm.ret
    THEN [ret |-> FALSE, q |-> tm.q, out |-> << <<MsgSanityNoPrivilege>> >>]
    ELSE LET network == floating[Len(floating)]
             q == tm.q \o <<"network.networks", "identity.get_project">>
         IN  IF is_legacy_network(network) # is_legacy_project
             THEN [ret |-> FALSE, q |-> q, out |-> << <<MsgRecentlySwitched>> >>]
             ELSE [ret |-> TRUE, q |-> q, out |-> << >>]

\* check_sanity(): [ret, q, out].
check_sanity ==
    LET tm == is_tenant_manager IN
    IF ~tm.ret
    THEN [ret |-> FALSE, q |-> tm.q, out |-> << <<MsgSanityNoPrivilege>> >>]
    ELSE LET network == floating[1]
             q == tm.q \o <<"network.networks", "identity.get_project">>
         IN  IF is_legacy_network(network) # is_legacy_project
             THEN [ret |-> FALSE, q |-> q, out |-> << <<MsgRecentlySwitched>> >>]
             ELSE [ret |-> TRUE, q |-> q, out |-> << >>]

\* ------------------------------------------------- classification rules

\* Python truthiness of a recommendation: None and '' are false.
Truthy(recommendation) == recommendation # None /\ recommendation # ""

\* PrettyNetwork._get_recommendation: the network object is at hand.
PrettyNetwork_get_recommendation(obj) ==
    IF is_legacy_network(obj.id) THEN "Replace" ELSE None

\* Variant of PrettyFIP._get_recommendation with the port test inverted.
PrettyFIP_port_test_inverted(obj) ==
    IF is_legacy_network(obj.floating_network_id)
    THEN IF obj.port_id # None THEN "Unused, Delete" ELSE "Replace"
    ELSE None

\* PrettyFIP._get_recommendation: the floating network is looked up by id.
PrettyFIP_get_recommendation(obj) ==
    IF is_legacy_network(obj.floating_network_id)
    THEN IF obj.port_id = None THEN "Unused, Delete" ELSE "Replace"
    ELSE None

\* conn.network.ports(device_id=..., device_owner=...).
network_ports(device_id, device_owner) ==
    { p \in ports : p.device_id = device_id /\ p.device_owner = device_owner }

\* Variant of PrettyRouter._get_recommendation that looks at the gateway
\* before the interfaces.
PrettyRouter_gateway_first(obj) ==
    IF obj.gateway = None
    THEN None
    ELSE IF is_legacy_network(obj.gateway)
    THEN "Replace"
    ELSE IF Cardinality(network_ports(obj.id, OWNER_ROUTER_INTERFACE)) = 0
    THEN "No networks attached, Delete"
    ELSE None

\* PrettyRouter._get_recommendation.  obj.gateway stands for
\* external_gateway_info: None, or the info's network_id.
PrettyRouter_get_recommendation(obj) ==
    LET interfaces == network_ports(obj.id, OWNER_ROUTER_INTERFACE) IN
    IF Cardinality(interfaces) = 0
    THEN "No networks attached, Delete"
    ELSE IF obj.gateway = None
    THEN None
    ELSE IF is_legacy_network(obj.gateway)
    THEN "Replace"
    ELSE None

\* PrettyServer._get_recommendation.
PrettyServer_get_recommendation(obj) ==
    LET legacy_networks == { n \in obj.interfaces : is_legacy_network(n) } IN
    IF legacy_networks # {} THEN "Switch to modern network" ELSE None

\* The cloud calls each _get_recommendation issues.
RecommendationQueries(kind, obj) ==
    CASE kind = "network" -> << >>
      [] kind = "floatingip" -> <<"network.get_network">>
      [] kind = "router" ->
            <<"network.ports">> \o
            (IF network_ports(obj.id, OWNER_ROUTER_INTERFACE) # {}
                /\ obj.gateway # None
             THEN <<"network.get_network">> ELSE << >>)
      [] kind = "server" ->
            <<"compute.server_interfaces">> \o
            [i \in 1..Cardinality(obj.interfaces) |-> "network.get_network"]

\* str.capitalize() of the four resource keys.
Capitalize(kind) ==
    CASE kind = "network" -> "Network"
      [] kind = "router" -> "Router"
      [] kind = "floatingip" -> "Floatingip"
      [] kind = "server" -> "Server"

\* _resource_to_prettyresource: the Pretty* object of a resource, by its
\* resource_key.
resource_to_prettyresource(kind, obj) ==
    [type |-> Capitalize(kind),
     id |-> obj.id,
     recommendation |->
        CASE kind = "network" -> PrettyNetwork_get_recommendation(obj)
          [] kind = "floatingip" -> PrettyFIP_get_recommendation(obj)
          [] kind = "router" -> PrettyRouter_get_recommendation(obj)
          [] kind = "server" -> PrettyServer_get_recommendation(obj)]

\* PrettyResource.prettyrow: a missing recommendation prints as ''.
prettyrow(r) ==
    [type |-> r.type, id |-> r.id,
     recommendation |-> IF Truthy(r.recommendation) THEN r.recommendation ELSE ""]

\* Variant of _resources_to_prettyrows that never filters.
resources_to_prettyrows_unfiltered(kind, objs, all_resources) ==
    { prettyrow(r) : r \in { resource_to_prettyresource(kind, o) : o \in objs } }

\* _resources_to_prettyrows.
resources_to_prettyrows(kind, objs, all_resources) ==
    LET pretty == { resource_to_prettyresource(kind, o) : o \in objs }
        kept == IF ~all_resources
                THEN { r \in pretty : Truthy(r.recommendation) }
                ELSE pretty
    IN  { prettyrow(r) : r \in kept }

\* The calls _resources_to_prettyrows issues for a collection, resource by
\* resource, in the order the listing returns them.
RECURSIVE CollectionQueries(_, _)
CollectionQueries(kind, objs) ==
    IF objs = {} THEN << >>
    ELSE LET o == CHOOSE x \in objs : TRUE
         IN  RecommendationQueries(kind, o) \o CollectionQueries(kind, objs \ {o})

\* ------------------------------------------------------------ reporter

\* check(args): [q, out, pt, tags].  The report reads the cloud and prints;
\* the table is printed only when it has rows.
check(all_resources) ==
    LET rows == resources_to_prettyrows("network", networks, all_resources)
                \cup resources_to_prettyrows("router", routers, all_resources)
                \cup resources_to_prettyrows("floatingip", ips, all_resources)
                \cup resources_to_prettyrows("server", servers, all_resources)
        rowcount == Cardinality(rows)
        output ==
            IF ~is_legacy_project /\ rowcount = 0
            THEN <<MsgCongratulations>>
            ELSE (IF is_legacy_project
                  THEN <<MsgNeedsSwitch>> ELSE <<MsgAlreadyUsing>>)
                 \o (IF rowcount # 0 THEN <<MsgMigrationList>> ELSE << >>)
        q == <<"identity.get_project", "identity.get_project">>
             \o <<"network.networks">> \o CollectionQueries("network", networks)
             \o <<"network.routers">> \o CollectionQueries("router", routers)
             \o <<"network.ips">> \o CollectionQueries("floatingip", ips)
             \o <<"compute.servers">> \o CollectionQueries("server", servers)
             \o <<"identity.get_project">>
             \o (IF ~is_legacy_project /\ rowcount = 0
                 THEN << >> ELSE <<"identity.get_project">>)
    IN  [q |-> q,
         out |-> << <<MsgProject>>,
                    <<IF is_legacy_project
                      THEN MsgNetworkingLegacy ELSE MsgNetworkingModern>>,
                    <<MsgChecking>>,
                    output >>
                 \o (IF rowcount # 0 THEN << <<MsgTable>> >> ELSE << >>),
         pt |-> rows,
         tags |-> tags]

\* ------------------------------------------------------------ switcher

\* Variant of add_tag that overwrites the tag set.
add_tag_replace(project_tags, tag) == {tag}

\* Variant of remove_tag that clears the tag set.
remove_tag_clear(project_tags, tag) == {}

\* project.add_tag(tag): keystone adds the tag to the project's tag set.
add_tag(project_tags, tag) == project_tags \cup {tag}

\* project.remove_tag(tag): keystone removes the tag from the tag set.
remove_tag(project_tags, tag) == project_tags \ {tag}

\* switch(args): [q, out, pt, tags].
switch(networking) ==
    LET tm == is_tenant_manager IN
    IF ~tm.ret
    THEN [q |-> tm.q,
          out |-> << <<MsgSwitching>>, <<MsgSwitchNoPrivilege>> >>,
          pt |-> {}, tags |-> tags]
    ELSE LET q == tm.q \o <<"identity.get_project", "identity.get_project">> IN
         IF networking = NAME_MIDONET
         THEN IF is_legacy_project
              THEN [q |-> q,
                    out |-> << <<MsgSwitching>>, <<MsgAlreadyLegacy>> >>,
                    pt |-> {}, tags |-> tags]
              ELSE [q |-> q \o <<"project.add_tag">>,
                    out |-> << <<MsgSwitching>>, <<MsgSetLegacy>>,
                               <<MsgWaitLegacy>> >>,
                    pt |-> {}, tags |-> add_tag(tags, TAG_LEGACY)]
         ELSE IF networking = NAME_OVN
         THEN IF ~is_legacy_project
              THEN [q |-> q,
                    out |-> << <<MsgSwitching>>, <<MsgAlreadyModern>> >>,
                    pt |-> {}, tags |-> tags]
              ELSE [q |-> q \o <<"project.remove_tag">>,
                    out |-> << <<MsgSwitching>>, <<MsgSetModern>>,
                               <<MsgWaitModern>> >>,
                    pt |-> {}, tags |-> remove_tag(tags, TAG_LEGACY)]
         ELSE [q |-> q, out |-> << <<MsgSwitching>> >>, pt |-> {}, tags |-> tags]

\* ---------------------------------------------------------- dispatcher

\* The parsed command lines: check [--all], switch {legacy,modern}.
CheckArgs(all_resources) ==
    [op |-> "check", all_resources |-> all_resources, networking |-> None]
SwitchArgs(networking) ==
    [op |-> "switch", all_resources |-> FALSE, networking |-> networking]

\* Variant of main that dispatches whatever check_sanity() returned.
main_no_gate(args) ==
    LET sane == check_sanity
        r == IF args.op = "check"
             THEN check(args.all_resources)
             ELSE switch(args.networking)
    IN  [q |-> sane.q \o r.q, out |-> sane.out \o r.out,
         pt |-> r.pt, tags |-> r.tags]

\* main(): check_sanity() once, then the command.
main(args) ==
    LET sane == check_sanity IN
    IF ~sane.ret
    THEN [q |-> sane.q, out |-> sane.out, pt |-> {}, tags |-> tags]
    ELSE LET r == IF args.op = "check"
                  THEN check(args.all_resources)
                  ELSE switch(args.networking)
         IN  [q |-> sane.q \o r.q, out |-> sane.out \o r.out,
              pt |-> r.pt, tags |-> r.tags]

\* -------------------------------------------------------------- actions

\* History: the mode of the last tag change, until the first floating
\* network is observed on the backend of that mode.
NextPending(new_tags, new_netType) ==
    IF new_tags # tags
    THEN IF TAG_LEGACY \in new_tags THEN NAME_MIDONET ELSE NAME_OVN
    ELSE IF /\ pending # "none"
            /\ (new_netType[floating[1]] = "midonet") = (pending = NAME_MIDONET)
    THEN "none"
    ELSE pending

\* History: the last two calls of switch(), the latest last.
NextCalls(call) ==
    LET c == Append(calls, call) IN IF Len(c) > 2 THEN Tail(c) ELSE c

\* A run of the tool with the effect r = [q, out, pt, tags].
Run(args, r) ==
    /\ cmd' = args
    /\ queries' = r.q
    /\ out' = r.out
    /\ pt' = r.pt
    /\ tags' = r.tags
    /\ UNCHANGED <<tm_role, assignments, netType, resources>>

\* `migrate.py check [--all]`.
MainCheck(all_resources) ==
    /\ Run(CheckArgs(all_resources), main(CheckArgs(all_resources)))
    /\ pending' = NextPending(main(CheckArgs(all_resources)).tags, netType)
    /\ UNCHANGED calls

\* `migrate.py switch {legacy,modern}`.
MainSwitch(networking) ==
    /\ Run(SwitchArgs(networking), main(SwitchArgs(networking)))
    /\ pending' = NextPending(main(SwitchArgs(networking)).tags, netType)
    /\ UNCHANGED calls

\* A call of the function switch(args) itself.
CallSwitch(networking) ==
    /\ Run(SwitchArgs(networking), switch(networking))
    /\ calls' = NextCalls([networking |-> networking,
                           privileged |-> is_tenant_manager.ret,
                           before |-> tags])
    /\ UNCHANGED pending

\* A call of the function check(args) itself.
CallCheck(all_resources) ==
    /\ Run(CheckArgs(all_resources), check(all_resources))
    /\ UNCHANGED <<calls, pending>>

\* Between runs no process of the tool exists.
NoRun ==
    /\ cmd' = Idle
    /\ queries' = << >>
    /\ out' = << >>
    /\ pt' = {}

\* Environment: keystone policy or the role itself changes.
SetRole(v) ==
    /\ v # tm_role
    /\ tm_role' = v
    /\ NoRun
    /\ UNCHANGED <<tags, assignments, netType, resources, calls, pending>>

\* Environment: a role assignment is granted.
Grant(a) ==
    /\ a \notin assignments
    /\ assignments' = assignments \cup {a}
    /\ NoRun
    /\ UNCHANGED <<tags, tm_role, netType, resources, calls, pending>>

\* Environment: a role assignment is revoked.
Revoke(a) ==
    /\ a \in assignments
    /\ assignments' = assignments \ {a}
    /\ NoRun
    /\ UNCHANGED <<tags, tm_role, netType, resources, calls, pending>>

\* Environment: the backend a network is served from changes (the neutron
\* side catching up with the project tag, or an operator's change).
Propagate(n, t) ==
    /\ netType[n] # t
    /\ netType' = [netType EXCEPT ![n] = t]
    /\ pending' = NextPending(tags, netType')
    /\ NoRun
    /\ UNCHANGED <<tags, tm_role, assignments, resources, calls>>

\* ------------------------------------------------------ specifications

RoleStates == {"forbidden", None, TenantManagerRoleId}
FloatingLists == { <<"ext-1">>, <<"ext-1", "ext-2">>, <<"ext-2", "ext-1">> }

EmptyProject ==
    [networks |-> {}, routers |-> {}, ports |-> {}, ips |-> {}, servers |-> {}]
LegacyProject ==
    [networks |-> {[id |-> "net-1"]},
     routers |-> {[id |-> "router-1", gateway |-> "ext-1"]},
     ports |-> {[device_id |-> "router-1",
                 device_owner |-> OWNER_ROUTER_INTERFACE]},
     ips |-> {[id |-> "fip-1", floating_network_id |-> "ext-1",
               port_id |-> None]},
     servers |-> {[id |-> "server-1", interfaces |-> {"net-1"}]}]
SampleProjects == {EmptyProject, LegacyProject}

InitRun ==
    /\ cmd = Idle
    /\ queries = << >>
    /\ out = << >>
    /\ pt = {}
    /\ calls = << >>
    /\ pending = "none"

\* Runs of the script through main(), against a cloud that changes between
\* the runs.
Init ==
    /\ tags \in SUBSET TagUniverse
    /\ tm_role \in RoleStates
    /\ assignments \in SUBSET AssignmentUniverse
    /\ netType \in [NetIds -> NetTypes]
    /\ floating \in FloatingLists
    /\ \E p \in SampleProjects :
          /\ networks = p.networks
          /\ routers = p.routers
          /\ ports = p.ports
          /\ ips = p.ips
          /\ servers = p.servers
    /\ InitRun

Next ==
    \/ \E all_resources \in BOOLEAN : MainCheck(all_resources)
    \/ \E networking \in {NAME_MIDONET, NAME_OVN} : MainSwitch(networking)
    \/ \E v \in RoleStates : SetRole(v)
    \/ \E a \in AssignmentUniverse : Grant(a)
    \/ \E a \in AssignmentUniverse : Revoke(a)
    \/ \E n \in NetIds, t \in NetTypes : Propagate(n, t)

Spec == Init /\ [][Next]_vars

\* Calls of switch(args) itself, with the caller's privilege changing
\* between the calls.
InitSwitch ==
    /\ tags \in SUBSET TagUniverse
    /\ tm_role \in RoleStates
    /\ assignments \in SUBSET AssignmentUniverse
    /\ netType = [n \in NetIds |-> "ovn"]
    /\ floating = <<"ext-1">>
    /\ networks = {} /\ routers = {} /\ ports = {} /\ ips = {} /\ servers = {}
    /\ InitRun

NextSwitch ==
    \/ \E networking \in {NAME_MIDONET, NAME_OVN} : CallSwitch(networking)
    \/ \E v \in RoleStates : SetRole(v)
    \/ \E a \in AssignmentUniverse : Grant(a)
    \/ \E a \in AssignmentUniverse : Revoke(a)

SpecSwitch == InitSwitch /\ [][NextSwitch]_vars

\* Calls of check(args) itself on every project of at most MaxResources
\* resources and MaxPorts ports.
InitCheck ==
    /\ tags \in {{}, {TAG_LEGACY}}
    /\ tm_role = TenantManagerRoleId
    /\ assignments = {[user |-> current_user_id,
                       project |-> current_project_id,
                       role |-> TenantManagerRoleId]}
    /\ netType \in [NetIds -> NetTypes]
    /\ floating = <<"ext-1">>
    /\ networks \in SUBSET {[id |-> "net-1"]}
    /\ routers \in {s \in SUBSET RouterUniverse : UniqueIds(s)}
    /\ Cardinality(networks) + Cardinality(routers) <= MaxResources
    /\ ips \in {s \in SUBSET FipUniverse : UniqueIds(s)}
    /\ Cardinality(networks) + Cardinality(routers) + Cardinality(ips)
          <= MaxResources
    /\ servers \in {s \in SUBSET ServerUniverse : UniqueIds(s)}
    /\ Cardinality(networks) + Cardinality(routers) + Cardinality(ips)
          + Cardinality(servers) <= MaxResources
    /\ ports \in {s \in SUBSET PortUniverse : Cardinality(s) <= MaxPorts}
    /\ InitRun

NextCheck ==
    \E all_resources \in BOOLEAN : CallCheck(all_resources)

SpecCheck == InitCheck /\ [][NextCheck]_vars

\* --------------------------------------------------------------- claims

\* Whether a run whose output is o printed the sentence msg.
PrintedIn(o, msg) == \E i \in DOMAIN o : \E j \in DOMAIN o[i] : o[i][j] = msg
Printed(msg) == PrintedIn(out, msg)

\* The project's tag state agrees with the backend of the first floating
\* network.
Agreement == is_legacy_network(floating[1]) = is_legacy_project

\* The caller holds the TenantManager role on the current project.
HoldsTenantManager ==
    \E a \in assignments : /\ a.user = current_user_id
                           /\ a.project = current_project_id
                           /\ a.role = tm_role

\* C1: a run dispatched while is_tenant_manager() is false issues no cloud
\* call after the privilege lookup, runs neither check nor switch (it prints
\* the sanity message only, builds no report) and leaves the tags alone.
C1_SanityGatePrivilege ==
    [][ (cmd'.op \in {"check", "switch"} /\ ~is_tenant_manager.ret)
        => /\ queries' = is_tenant_manager.q
           /\ out' = << <<MsgSanityNoPrivilege>> >>
           /\ pt' = {}
           /\ tags' = tags ]_vars

C1_Witness ==
    /\ cmd.op = "switch"
    /\ ~is_tenant_manager.ret
    /\ Agreement
    /\ out = << <<MsgSanityNoPrivilege>> >>

\* C2: a run changes the tags or prints a report only from a state where
\* the caller is privileged and the tag state agrees with the first
\* floating network; from a state where they disagree a run changes no tag
\* and prints no report.
C2_AgreementGate ==
    [][ cmd'.op \in {"check", "switch"}
        => /\ (tags' # tags \/ PrintedIn(out', MsgProject) \/ pt' # {})
                => (is_tenant_manager.ret /\ Agreement)
           /\ ~Agreement
                => /\ tags' = tags
                   /\ ~PrintedIn(out', MsgProject)
                   /\ ~PrintedIn(out', MsgSwitching)
                   /\ pt' = {} ]_vars

C2_Witness ==
    /\ cmd.op = "switch"
    /\ cmd.networking = NAME_OVN
    /\ is_tenant_manager.ret
    /\ is_legacy_project
    /\ ~Agreement
    /\ out = << <<MsgRecentlySwitched>> >>

\* C3: switch(mode) called by a privileged caller on a project already in
\* that mode leaves the tag set as it is and prints the 'already set'
\* message of the mode, not the propagation warning.
C3_SwitchIdempotent ==
    [][ (/\ cmd'.op = "switch"
         /\ is_tenant_manager.ret
         /\ \/ cmd'.networking = NAME_MIDONET /\ TAG_LEGACY \in tags
            \/ cmd'.networking = NAME_OVN /\ TAG_LEGACY \notin tags)
        => /\ tags' = tags
           /\ PrintedIn(out', IF cmd'.networking = NAME_MIDONET
                              THEN MsgAlreadyLegacy ELSE MsgAlreadyModern)
           /\ ~PrintedIn(out', MsgWaitLegacy)
           /\ ~PrintedIn(out', MsgWaitModern)
           /\ ~PrintedIn(out', MsgSetLegacy)
           /\ ~PrintedIn(out', MsgSetModern) ]_vars

C3_Witness ==
    /\ cmd.op = "switch"
    /\ cmd.networking = NAME_MIDONET
    /\ Len(calls) > 0
    /\ calls[Len(calls)].privileged
    /\ TAG_LEGACY \in calls[Len(calls)].before
    /\ "other-tag" \in tags
    /\ Printed(MsgAlreadyLegacy)

\* The last two calls of switch() were switch(legacy) then switch(modern),
\* both by a privileged caller, the first on a tag set without the legacy
\* tag.
RoundTripDone ==
    /\ Len(calls) = 2
    /\ calls[1].networking = NAME_MIDONET
    /\ calls[1].privileged
    /\ TAG_LEGACY \notin calls[1].before
    /\ calls[2].networking = NAME_OVN
    /\ calls[2].privileged

\* C4: switch(legacy) followed by switch(modern), by a privileged caller on
\* a tag set without the legacy tag, leaves exactly the original tag set.
C4_SwitchRoundTrip ==
    RoundTripDone
        => /\ calls[2].before = calls[1].before \cup {TAG_LEGACY}
           /\ tags = calls[1].before

C4_Witness ==
    /\ RoundTripDone
    /\ calls[1].before = {"other-tag"}
    /\ Printed(MsgSetModern)

\* C5: a run of the tool changes nothing of the cloud but the presence of
\* the legacy tag on the project: check changes no cloud state, and switch
\* keeps every other tag, and every role, assignment, network, router, port,
\* floating IP and server.
C5_Frame ==
    [][ cmd'.op \in {"check", "switch"}
        => /\ tags' \ {TAG_LEGACY} = tags \ {TAG_LEGACY}
           /\ cmd'.op = "check" => tags' = tags
           /\ tm_role' = tm_role
           /\ assignments' = assignments
           /\ netType' = netType
           /\ resources' = resources ]_vars

C5_Witness ==
    /\ cmd.op = "switch"
    /\ Printed(MsgSetLegacy)
    /\ tags = {TAG_LEGACY, "other-tag"}

\* The row of the report for the resource of that type and id, if any.
RowsOf(type, id) == { row \in pt : row.type = type /\ row.id = id }

\* The row a resource must have in the report, given the recommendation
\* ("" for none) it is to carry: one row with that recommendation, except
\* that a resource without recommendation has no row unless --all is given.
RowIs(type, id, recommendation) ==
    IF recommendation # "" \/ cmd.all_resources
    THEN RowsOf(type, id) =
            {[type |-> type, id |-> id, recommendation |-> recommendation]}
    ELSE RowsOf(type, id) = {}

\* The number of ports of a router whose device_owner is
\* network:router_interface.
InterfacePorts(router) ==
    Cardinality({ p \in ports : /\ p.device_id = router.id
                                /\ p.device_owner = "network:router_interface" })

RouterDecision(router) ==
    IF InterfacePorts(router) = 0
    THEN "No networks attached, Delete"
    ELSE IF router.gateway # None /\ netType[router.gateway] = "midonet"
    THEN "Replace"
    ELSE ""

\* C6: in a report every router carries 'No networks attached, Delete' if it
\* has no router-interface port, whatever its gateway; otherwise 'Replace'
\* if its gateway network is legacy, and no recommendation if the gateway
\* network is modern or there is no gateway.
C6_RouterClassification ==
    cmd.op = "check"
        => \A r \in routers : RowIs("Router", r.id, RouterDecision(r))

C6_Witness ==
    /\ cmd.op = "check"
    /\ \E r1, r2 \in routers :
          /\ InterfacePorts(r1) = 0
          /\ r1.gateway # None
          /\ netType[r1.gateway] = "midonet"
          /\ InterfacePorts(r2) > 0
          /\ r2.gateway # None
          /\ netType[r2.gateway] = "midonet"
          /\ [type |-> "Router", id |-> r1.id,
              recommendation |-> "No networks attached, Delete"] \in pt
          /\ [type |-> "Router", id |-> r2.id,
              recommendation |-> "Replace"] \in pt

FipDecision(fip) ==
    IF netType[fip.floating_network_id] = "midonet"
    THEN IF fip.port_id = None THEN "Unused, Delete" ELSE "Replace"
    ELSE ""

\* C7: in a report every floating IP carries 'Unused, Delete' if its
\* floating network is legacy and it has no port, 'Replace' if its floating
\* network is legacy and it has a port, and no recommendation if its
\* floating network is modern.
C7_FipClassification ==
    cmd.op = "check"
        => \A f \in ips : RowIs("Floatingip", f.id, FipDecision(f))

C7_Witness ==
    /\ cmd.op = "check"
    /\ ~cmd.all_resources
    /\ \E f \in ips :
          /\ netType[f.floating_network_id] = "midonet"
          /\ f.port_id = None
          /\ [type |-> "Floatingip", id |-> f.id,
              recommendation |-> "Unused, Delete"] \in pt

\* The resources of the four collections with their resource keys, and the
\* recommendation of each.
Listed ==
    { <<"network", o>> : o \in networks } \cup { <<"router", o>> : o \in routers }
    \cup { <<"floatingip", o>> : o \in ips } \cup { <<"server", o>> : o \in servers }
RecommendationOf(x) == resource_to_prettyresource(x[1], x[2]).recommendation
HasRow(x) == RowsOf(Capitalize(x[1]), x[2].id) # {}

\* A resource tied to the legacy backend: a legacy network, a router whose
\* gateway network is legacy, a floating IP of a legacy network, a server
\* with an interface on a legacy network.
IsLegacyResource(x) ==
    CASE x[1] = "network" -> netType[x[2].id] = "midonet"
      [] x[1] = "router" ->
            x[2].gateway # None /\ netType[x[2].gateway] = "midonet"
      [] x[1] = "floatingip" -> netType[x[2].floating_network_id] = "midonet"
      [] x[1] = "server" -> \E n \in x[2].interfaces : netType[n] = "midonet"

\* The report of check: the rows kept, the success message and the table.
ReportShape ==
    /\ ~cmd.all_resources
          => \A x \in Listed : HasRow(x) <=> Truthy(RecommendationOf(x))
    /\ cmd.all_resources => \A x \in Listed : HasRow(x)
    /\ Cardinality(pt) <= Cardinality(Listed)
    /\ Printed(MsgCongratulations) <=> (TAG_LEGACY \notin tags /\ pt = {})
    /\ Printed(MsgTable) <=> pt # {}

\* C8 as stated: the report has that shape, and check without --all on a
\* modern project with no legacy resource prints the success message and
\* no table.
C8_Original ==
    cmd.op = "check"
        => /\ ReportShape
           /\ (/\ ~cmd.all_resources
               /\ TAG_LEGACY \notin tags
               /\ \A x \in Listed : ~IsLegacyResource(x))
                 => (Printed(MsgCongratulations) /\ ~Printed(MsgTable))

\* C8 (amended): the report has that shape, and check without --all on a
\* modern project with no legacy resource and no router without interface
\* ports prints the success message and no table.
C8_Report ==
    cmd.op = "check"
        => /\ ReportShape
           /\ (/\ ~cmd.all_resources
               /\ TAG_LEGACY \notin tags
               /\ \A x \in Listed : ~IsLegacyResource(x)
               /\ \A r \in routers : InterfacePorts(r) > 0)
                 => (Printed(MsgCongratulations) /\ ~Printed(MsgTable))

C8_Witness ==
    /\ cmd.op = "check"
    /\ ~cmd.all_resources
    /\ TAG_LEGACY \notin tags
    /\ Cardinality(Listed) = 2
    /\ routers # {}
    /\ \A x \in Listed : ~IsLegacyResource(x)
    /\ \A r \in routers : InterfacePorts(r) > 0
    /\ Printed(MsgCongratulations)
    /\ ~Printed(MsgTable)

\* C9: is_tenant_manager() is false, with no role-assignment query, when the
\* lookup of the role is forbidden or finds no role; otherwise it is true
\* iff the caller holds an assignment of that role on the current project.
\* A run through main() shows the decision: it is refused with the privilege
\* message iff the decision is false.
C9_PrivilegeDecision ==
    /\ tm_role \in {"forbidden", None}
          => (~is_tenant_manager.ret /\ is_tenant_manager.q = <<"get_role">>)
    /\ tm_role \notin {"forbidden", None}
          => /\ is_tenant_manager.ret <=> HoldsTenantManager
             /\ is_tenant_manager.q = <<"get_role", "list_role_assignments">>
    /\ cmd.op \in {"check", "switch"}
          => /\ Printed(MsgSanityNoPrivilege)
                  <=> (tm_role \in {"forbidden", None} \/ ~HoldsTenantManager)
             /\ (\E i \in DOMAIN queries : queries[i] = "list_role_assignments")
                  <=> tm_role \notin {"forbidden", None}

C9_Witness ==
    /\ cmd.op = "check"
    /\ tm_role = TenantManagerRoleId
    /\ assignments = AssignmentUniverse
          \ {[user |-> current_user_id, project |-> current_project_id,
              role |-> TenantManagerRoleId]}
    /\ out = << <<MsgSanityNoPrivilege>> >>

\* C10 as stated: while the first floating network has not caught up with
\* the last tag change, every run through main() is refused with the
\* 'recently switched' message, builds no report and changes no tag.
C10_Original ==
    [][ (cmd'.op \in {"check", "switch"} /\ pending # "none")
        => /\ out' = << <<MsgRecentlySwitched>> >>
           /\ pt' = {}
           /\ tags' = tags ]_vars

\* C10 (amended): while the first floating network has not caught up with
\* the last tag change, every run through main() is refused by
\* check_sanity(), builds no report and changes no tag; the message is the
\* 'recently switched' one if the caller still holds the role and the
\* privilege one if not.  Hence the tag never changes twice without the
\* network having been observed on the backend of the first change.
C10_LockOut ==
    [][ /\ (cmd'.op \in {"check", "switch"} /\ pending # "none")
            => /\ out' = IF is_tenant_manager.ret
                         THEN << <<MsgRecentlySwitched>> >>
                         ELSE << <<MsgSanityNoPrivilege>> >>
               /\ pt' = {}
               /\ tags' = tags
        /\ tags' # tags => (pending = "none" /\ pending' # "none") ]_vars

C10_Witness ==
    /\ pending = NAME_MIDONET
    /\ cmd.op = "switch"
    /\ cmd.networking = NAME_OVN
    /\ TAG_LEGACY \in tags
    /\ out = << <<MsgRecentlySwitched>> >>

====
